---- MODULE Spec2Model ----
(***************************************************************************)
(* KubernetesRunner (model_server_runners/kubernetes_runner.py): the       *)
(* lifecycle controller that creates one model-server Pod, polls it until  *)
(* it is running, hands out its endpoint and deletes it best-effort.       *)
(*                                                                         *)
(* The runner is used by one caller at a time: pc is the position of the   *)
(* single call in progress ("idle" between calls).  The Kubernetes API     *)
(* server is the environment: every answer it can give to a request is a   *)
(* nondeterministic choice.                                                *)
(***************************************************************************)
EXTENDS Integers, Sequences, FiniteSets, TLC

\* ------------------------------------------------------------------ bounds
\* Largest deadline a caller passes to WaitUntilRunning, in seconds after the
\* call (the code compares time.time() with the deadline and nothing else, so
\* the clock's origin is put at the beginning of the call).
MaxDeadline == 11
\* Largest number of seconds one read request itself takes.
MaxLatency == 1
\* Creation requests the model lets a runner send over its life.
MaxCreates == 2

\* ------------------------------------------------------- program constants
_DEFAULT_POLLING_INTERVAL_SEC == 5
_DEFAULT_ACTIVE_DEADLINE_SEC == 86400
_POD_PHASE_RUNNING == "Running"
_POD_PHASE_SUCCEEDED == "Succeeded"
_POD_PHASE_FAILED == "Failed"
\* Mutant: the pod is created with the restart policy 'Always'.
RestartPolicyAlways == "Always"
_POD_CONTAINER_RESTART_POLICY_NEVER == "Never"
_MODEL_SERVER_POD_NAME_PREFIX == "tfx-infraval-modelserver-"
_MODEL_SERVER_APP_LABEL == "tfx-infraval-modelserver"
_MODEL_SERVER_CONTAINER_NAME == "model-server"

\* Python's None, and a falsy (unassigned) pod_ip.
None == "None"
NoIP == ""

\* ------------------------------------------------------------ environment
\* Pod phases of the Kubernetes pod lifecycle (comment at lines 129-133).
Phases == {"Pending", "Running", "Succeeded", "Failed", "Unknown"}
PodIPs == {NoIP, "10.0.0.7", "10.0.0.9"}
\* Names the API server generates from the generate_name prefix.
PodNames == {"tfx-infraval-modelserver-a", "tfx-infraval-modelserver-b"}
\* HTTP statuses carried by rest.ApiException.
ApiStatuses == {404, 500}
Namespace == "kubeflow"

NoResponse == [kind |-> "none", phase |-> "", pod_ip |-> NoIP, status |-> 0]
PodResponse(ph, ip) == [kind |-> "pod", phase |-> ph, pod_ip |-> ip, status |-> 200]
ApiException(st) == [kind |-> "ApiException", phase |-> "", pod_ip |-> NoIP, status |-> st]
\* A call the client library refuses before sending anything (an error that
\* is not a rest.ApiException).
ClientRejection == [kind |-> "rejected", phase |-> "", pod_ip |-> NoIP, status |-> 0]
Deleted == [kind |-> "deleted", phase |-> "", pod_ip |-> NoIP, status |-> 200]

\* read_namespaced_pod(name, namespace): a V1Pod with a status, or ApiException.
ReadResponses ==
  {PodResponse(ph, ip) : ph \in Phases, ip \in PodIPs}
    \cup {ApiException(st) : st \in ApiStatuses}

\* delete_namespaced_pod(name, namespace): success or ApiException.  Stop has
\* no guard on self._pod_name, so it can pass name=None; what the client does
\* with a missing required parameter is not fixed by the code: it may refuse
\* the call with an error that is not an ApiException, or send it as written.
DeleteResponses(name) ==
  {Deleted} \cup {ApiException(st) : st \in ApiStatuses}
    \cup (IF name = None THEN {ClientRejection} ELSE {})

\* create_namespaced_pod(namespace, body): the created V1Pod (with its
\* generated name) or ApiException.
CreateResponses ==
  {[kind |-> "created", name |-> n, status |-> 201] : n \in PodNames}
    \cup {[kind |-> "ApiException", name |-> None, status |-> st] : st \in ApiStatuses}

\* --------------------------------------------------- construction inputs
ServingBinaries == {"TensorFlowServing", "Other"}
ContainerPorts == {8500, 8501}
ServiceAccounts == {"", "custom-sa"}
\* ServingSpec.kubernetes.active_deadline_seconds: negative, unset, positive.
ActiveDeadlines == {-1, 0, 60}
\* The executor pod (kube_utils.get_current_kfp_pod).
ExecutorPods ==
  {[api_version |-> "v1", kind |-> "Pod", name |-> "executor-1",
    uid |-> "uid-1", service_account_name |-> "pipeline-runner"],
   [api_version |-> "v1", kind |-> "Argo", name |-> "executor-2",
    uid |-> "uid-2", service_account_name |-> "default-editor"]}
BasePort == CHOOSE p \in ContainerPorts : \A q \in ContainerPorts : p <= q
BaseExecutor == CHOOSE e \in ExecutorPods : e.name = "executor-1"

Construction(kinds, deadlines, accounts, ports, executors) ==
  [serving_binary : [kind : kinds, image : {"tensorflow/serving:latest"},
                     container_port : ports],
   config : [service_account_name : accounts, active_deadline_seconds : deadlines],
   executor_pod : executors]

\* The arguments of __init__: every serving binary with every
\* active_deadline_seconds, and the service account override, the container
\* port and the executor pod each varied in turn.
ConstructionInputs ==
  Construction(ServingBinaries, ActiveDeadlines, {""}, {BasePort}, {BaseExecutor})
    \cup Construction({"TensorFlowServing"}, {0}, ServiceAccounts, {BasePort}, {BaseExecutor})
    \cup Construction({"TensorFlowServing"}, {0}, {""}, ContainerPorts, {BaseExecutor})
    \cup Construction({"TensorFlowServing"}, {0}, {""}, {BasePort}, ExecutorPods)

VARIABLES
  serving_binary,  \* self._serving_binary: [kind, image, container_port]
  config,          \* self._config
  executor_pod,    \* self._executor_pod
  pod_name,        \* self._pod_name
  endpoint,        \* self._endpoint
  now,             \* time.time(), counted from the moment the call in progress began
  pc,              \* "idle" | "waiting" | "stopping"
  deadline,        \* argument of the WaitUntilRunning call, on the same clock
  reads,           \* read requests sent by the current/last WaitUntilRunning
  apiErrors,       \* how many of them raised ApiException
  sleeps,          \* durations of the sleeps of the current/last WaitUntilRunning
  lastPoll,        \* answer to the latest read request
  attempts,        \* deletion requests sent by the current/last Stop
  delays,          \* backoff delays slept by the current/last Stop
  lastDelete,      \* answer to the latest deletion request
  warned,          \* the manual-cleanup warning of the last Stop: <<>> or <<namespace, name>>
  result,          \* how the last completed call ended
  creates,         \* creation requests sent over the runner's life
  callCreates,     \* creation requests sent by the last Start call
  created,         \* creation requests that succeeded
  manifest,        \* <<body of the latest creation request>>, <<>> before any
  lastRequest,     \* latest request handed to the API client
  waitOk,          \* some WaitUntilRunning call has returned successfully
  waitOutcome,     \* outcome of the latest completed WaitUntilRunning
  stopsDone,       \* completed Stop calls (saturating at 2)
  before           \* <<pod_name, endpoint>> when the call in progress/last call began

vars ==
  <<serving_binary, config, executor_pod, pod_name, endpoint, now, pc, deadline,
    reads, apiErrors, sleeps, lastPoll, attempts, delays, lastDelete,
    warned, result, creates, callCreates, created, manifest, lastRequest,
    waitOk, waitOutcome, stopsDone, before>>

Result(op, outcome, value) == [op |-> op, outcome |-> outcome, value |-> value]
NoRequest == [verb |-> "none", name |-> None, namespace |-> Namespace]
Request(verb, name) == [verb |-> verb, name |-> name, namespace |-> Namespace]

Init ==
  /\ \E c \in ConstructionInputs :
       /\ serving_binary = c.serving_binary
       /\ config = c.config
       /\ executor_pod = c.executor_pod
  /\ pod_name = None
  /\ endpoint = None
  /\ now = 0
  /\ pc = "idle"
  /\ deadline = 0
  /\ reads = 0
  /\ apiErrors = 0
  /\ sleeps = <<>>
  /\ lastPoll = NoResponse
  /\ attempts = 0
  /\ delays = <<>>
  /\ lastDelete = NoResponse
  /\ warned = <<>>
  /\ result = Result("none", "none", "")
  /\ creates = 0
  /\ callCreates = 0
  /\ created = 0
  /\ manifest = <<>>
  /\ lastRequest = NoRequest
  /\ waitOk = FALSE
  /\ waitOutcome = "none"
  /\ stopsDone = 0
  /\ before = <<None, None>>

\* ---------------------------------------------------------------- helpers
\* Mutant: the port is left out of the endpoint.
FormatEndpointWithoutPort(ip, port) == ip

\* '{}:{}'.format(pod.status.pod_ip, self._serving_binary.container_port)
FormatEndpoint(ip, port) == ip \o ":" \o ToString(port)

\* Mutant: the configured value is used as it is, the default never applies.
OrDefaultKeeping(x, falsy, default) == x

\* `x or default` on a proto3 scalar: the default when x is falsy (0, "").
OrDefault(x, falsy, default) == IF x = falsy THEN default ELSE x

\* Mutant: the active deadline is not validated.
_BuildPodManifestUnvalidated ==
  IF serving_binary.kind # "TensorFlowServing"
  THEN [error |-> "NotImplementedError", pod |-> None]
  ELSE
    [error |-> "none",
     pod |->
       [generate_name |-> _MODEL_SERVER_POD_NAME_PREFIX,
        labels |-> [app |-> _MODEL_SERVER_APP_LABEL],
        owner_references |->
          <<[api_version |-> executor_pod.api_version,
             kind |-> executor_pod.kind,
             name |-> executor_pod.name,
             uid |-> executor_pod.uid]>>,
        containers |->
          <<[name |-> _MODEL_SERVER_CONTAINER_NAME,
             image |-> serving_binary.image]>>,
        service_account_name |->
          OrDefault(config.service_account_name, "", executor_pod.service_account_name),
        restart_policy |-> _POD_CONTAINER_RESTART_POLICY_NEVER,
        active_deadline_seconds |->
          OrDefault(config.active_deadline_seconds, 0, _DEFAULT_ACTIVE_DEADLINE_SEC)]]

\* _BuildPodManifest: the V1Pod to create, or the exception it raises.
_BuildPodManifest ==
  IF serving_binary.kind # "TensorFlowServing"
  THEN [error |-> "NotImplementedError", pod |-> None]
  ELSE
    LET service_account_name ==
          OrDefault(config.service_account_name, "", executor_pod.service_account_name)
        active_deadline_seconds ==
          OrDefault(config.active_deadline_seconds, 0, _DEFAULT_ACTIVE_DEADLINE_SEC)
    IN IF active_deadline_seconds < 0
       THEN [error |-> "ValueError", pod |-> None]
       ELSE [error |-> "none",
             pod |->
               [generate_name |-> _MODEL_SERVER_POD_NAME_PREFIX,
                labels |-> [app |-> _MODEL_SERVER_APP_LABEL],
                owner_references |->
                  <<[api_version |-> executor_pod.api_version,
                     kind |-> executor_pod.kind,
                     name |-> executor_pod.name,
                     uid |-> executor_pod.uid]>>,
                containers |->
                  <<[name |-> _MODEL_SERVER_CONTAINER_NAME,
                     image |-> serving_binary.image]>>,
                service_account_name |-> service_account_name,
                restart_policy |-> _POD_CONTAINER_RESTART_POLICY_NEVER,
                active_deadline_seconds |-> active_deadline_seconds]]

\* Mutant: the assertion of GetEndpoint is dropped.
EndpointIsReadyUnchecked(e) == TRUE

\* assert self._endpoint is not None
EndpointIsReady(e) == e # None

\* Mutant: the assertion of Start is dropped.
NotStartedUnchecked(name) == TRUE

\* assert not self._pod_name
NotStarted(name) == name = None

\* Mutant: the assertion of WaitUntilRunning is dropped.
PodCreatedUnchecked(name) == TRUE

\* assert self._pod_name
PodCreated(name) == name # None

\* Mutant: the loop is entered once more at the deadline itself.
BeforeDeadlineInclusive(t, d) == t <= d

\* while time.time() < deadline
BeforeDeadline(t, d) == t < d

\* Mutant: a 404 on the read is taken as permanent and re-raised.
PollCatchesExceptNotFound(status) == status # 404

\* except rest.ApiException: every status is caught and polled again.
PollCatches(status) == TRUE

\* Mutant: the phase alone decides, the address is not looked at.
IsRunningWithoutIpCheck(phase, ip) == phase = _POD_PHASE_RUNNING

\* pod_phase == _POD_PHASE_RUNNING and pod.status.pod_ip
IsRunningWithIp(phase, ip) == phase = _POD_PHASE_RUNNING /\ ip # NoIP

\* Mutant: only Failed aborts the wait.
IsTerminalPhaseFailedOnly(phase) == phase = _POD_PHASE_FAILED

\* pod_phase in (_POD_PHASE_SUCCEEDED, _POD_PHASE_FAILED)
IsTerminalPhase(phase) == phase \in {_POD_PHASE_SUCCEEDED, _POD_PHASE_FAILED}

\* Mutant: 404 is handled like every other status.
IsNotFoundNever(status) == FALSE

\* e.status == 404
IsNotFound(status) == status = 404

\* Mutant: one attempt more.
BackoffAttemptsSix == 5 + 1

\* time_utils.exponential_backoff(attempts=5)
BackoffAttempts == 5
\* The generator's first delay and its growth factor.
InitialDelaySec == 1
BackoffMultiplier == 2
NextDelay(d) == d * BackoffMultiplier
\* The delay the generator sleeps after the k-th failed attempt.
RECURSIVE BackoffDelay(_)
BackoffDelay(k) == IF k <= 1 THEN InitialDelaySec ELSE NextDelay(BackoffDelay(k - 1))

\* A call begins.  The records of the previous call are cleared: reads,
\* attempts, callCreates, lastRequest, ... always describe the call in
\* progress or, between calls, the call that ended last.
CallBegins ==
  /\ pc = "idle"
  /\ before' = <<pod_name, endpoint>>
  /\ now' = 0
  /\ deadline' = 0
  /\ reads' = 0
  /\ apiErrors' = 0
  /\ sleeps' = <<>>
  /\ lastPoll' = NoResponse
  /\ attempts' = 0
  /\ delays' = <<>>
  /\ lastDelete' = NoResponse
  /\ warned' = <<>>
  /\ callCreates' = 0
  /\ lastRequest' = NoRequest
  /\ UNCHANGED <<serving_binary, config, executor_pod>>

\* ---------------------------------------------------------------- actions
\* GetEndpoint()
GetEndpoint ==
  /\ CallBegins
  /\ result' =
       IF EndpointIsReady(endpoint)
       THEN Result("GetEndpoint", "ok", endpoint)
       ELSE Result("GetEndpoint", "AssertionError", "")
  /\ UNCHANGED <<pod_name, endpoint, pc, creates, created, manifest, waitOk,
                 waitOutcome, stopsDone>>

\* Mutant: a failed creation request is sent once more.
StartBodyRetrying(resp) ==
  IF pod_name # None
  THEN /\ result' = Result("Start", "AssertionError", "")
       /\ UNCHANGED <<pod_name, creates, created, manifest>>
  ELSE IF _BuildPodManifest.error # "none"
  THEN /\ result' = Result("Start", _BuildPodManifest.error, "")
       /\ UNCHANGED <<pod_name, creates, created, manifest>>
  ELSE /\ manifest' = <<_BuildPodManifest.pod>>
       /\ IF resp.kind = "created"
          THEN /\ creates < MaxCreates
               /\ creates' = creates + 1
               /\ pod_name' = resp.name
               /\ created' = created + 1
               /\ result' = Result("Start", "ok", "")
          ELSE /\ creates + 1 < MaxCreates
               /\ creates' = creates + 2
               /\ result' = Result("Start", "ApiException", "")
               /\ UNCHANGED <<pod_name, created>>

\* What Start does after the call began: the assertion, the manifest, one
\* create_namespaced_pod call whose answer is resp.
StartBody(resp) ==
  IF ~NotStarted(pod_name)
  THEN /\ result' = Result("Start", "AssertionError", "")
       /\ UNCHANGED <<pod_name, creates, created, manifest>>
  ELSE IF _BuildPodManifest.error # "none"
  THEN /\ result' = Result("Start", _BuildPodManifest.error, "")
       /\ UNCHANGED <<pod_name, creates, created, manifest>>
  ELSE /\ creates < MaxCreates
       /\ creates' = creates + 1
       /\ manifest' = <<_BuildPodManifest.pod>>
       /\ IF resp.kind = "created"
          THEN /\ pod_name' = resp.name
               /\ created' = created + 1
               /\ result' = Result("Start", "ok", "")
          ELSE /\ result' = Result("Start", "ApiException", "")
               /\ UNCHANGED <<pod_name, created>>

\* Start()
Start ==
  /\ pc = "idle"
  /\ before' = <<pod_name, endpoint>>
  /\ \E resp \in CreateResponses : StartBody(resp)
  /\ callCreates' = creates' - creates
  /\ lastRequest' = IF creates' > creates THEN Request("create", None) ELSE NoRequest
  /\ now' = 0
  /\ deadline' = 0
  /\ reads' = 0
  /\ apiErrors' = 0
  /\ sleeps' = <<>>
  /\ lastPoll' = NoResponse
  /\ attempts' = 0
  /\ delays' = <<>>
  /\ lastDelete' = NoResponse
  /\ warned' = <<>>
  /\ UNCHANGED <<serving_binary, config, executor_pod, endpoint, pc, waitOk,
                 waitOutcome, stopsDone>>

\* WaitUntilRunning(deadline): the assertion, then the loop is entered.
WaitUntilRunning ==
  /\ pc = "idle"
  /\ before' = <<pod_name, endpoint>>
  /\ \E d \in (-1)..MaxDeadline :
       IF ~PodCreated(pod_name)
       THEN /\ result' = Result("WaitUntilRunning", "AssertionError", "")
            /\ deadline' = 0
            /\ UNCHANGED pc
       ELSE /\ result' = Result("WaitUntilRunning", "running", "")
            /\ deadline' = d
            /\ pc' = "waiting"
  /\ now' = 0
  /\ reads' = 0
  /\ apiErrors' = 0
  /\ sleeps' = <<>>
  /\ lastPoll' = NoResponse
  /\ attempts' = 0
  /\ delays' = <<>>
  /\ lastDelete' = NoResponse
  /\ warned' = <<>>
  /\ callCreates' = 0
  /\ lastRequest' = NoRequest
  /\ UNCHANGED <<serving_binary, config, executor_pod, pod_name, endpoint, creates,
                 created, manifest, waitOk, waitOutcome, stopsDone>>

\* Between calls the clock and the deadline are not part of the state.
WaitReturns == now' = 0 /\ deadline' = 0

\* The loop condition fails: raise DeadlineExceeded.
WaitDeadline ==
  /\ pc = "waiting"
  /\ ~BeforeDeadline(now, deadline)
  /\ pc' = "idle"
  /\ result' = Result("WaitUntilRunning", "DeadlineExceeded", "")
  /\ waitOutcome' = "DeadlineExceeded"
  /\ WaitReturns
  /\ UNCHANGED <<serving_binary, config, executor_pod, pod_name, endpoint,
                 reads, apiErrors, sleeps, lastPoll, attempts, delays, lastDelete, warned, creates, callCreates, created, manifest,
                 lastRequest, waitOk, stopsDone, before>>

\* One iteration of the loop: the read request (taking took seconds), then
\* return, raise, or sleep one polling interval.
WaitPoll ==
  /\ pc = "waiting"
  /\ BeforeDeadline(now, deadline)
  /\ \E resp \in ReadResponses, took \in 0..MaxLatency :
       /\ reads' = reads + 1
       /\ lastPoll' = resp
       /\ lastRequest' = Request("read", pod_name)
       /\ IF resp.kind = "ApiException"
          THEN /\ apiErrors' = apiErrors + 1
               /\ IF PollCatches(resp.status)
                  THEN /\ sleeps' = Append(sleeps, _DEFAULT_POLLING_INTERVAL_SEC)
                       /\ now' = now + took + _DEFAULT_POLLING_INTERVAL_SEC
                       /\ UNCHANGED <<pc, endpoint, result, waitOk, waitOutcome, deadline>>
                  ELSE /\ pc' = "idle"
                       /\ result' = Result("WaitUntilRunning", "ApiException", "")
                       /\ waitOutcome' = "ApiException"
                       /\ WaitReturns
                       /\ UNCHANGED <<sleeps, endpoint, waitOk>>
          ELSE IF IsRunningWithIp(resp.phase, resp.pod_ip)
          THEN /\ endpoint' = FormatEndpoint(resp.pod_ip, serving_binary.container_port)
               /\ pc' = "idle"
               /\ result' = Result("WaitUntilRunning", "ok", "")
               /\ waitOk' = TRUE
               /\ waitOutcome' = "ok"
               /\ WaitReturns
               /\ UNCHANGED <<apiErrors, sleeps>>
          ELSE IF IsTerminalPhase(resp.phase)
          THEN /\ pc' = "idle"
               /\ result' = Result("WaitUntilRunning", "JobAborted", resp.phase)
               /\ waitOutcome' = "JobAborted"
               /\ WaitReturns
               /\ UNCHANGED <<apiErrors, sleeps, endpoint, waitOk>>
          ELSE /\ sleeps' = Append(sleeps, _DEFAULT_POLLING_INTERVAL_SEC)
               /\ now' = now + took + _DEFAULT_POLLING_INTERVAL_SEC
               /\ UNCHANGED <<apiErrors, pc, endpoint, result, waitOk, waitOutcome, deadline>>
  /\ UNCHANGED <<serving_binary, config, executor_pod, pod_name, attempts,
                 delays, lastDelete, warned, creates, callCreates, created,
                 manifest, stopsDone, before>>

\* Stop(): the backoff generator is created and the loop is entered.
Stop ==
  /\ CallBegins
  /\ pc' = "stopping"
  /\ result' = Result("Stop", "running", "")
  /\ UNCHANGED <<pod_name, endpoint, creates, created, manifest, waitOk,
                 waitOutcome, stopsDone>>

StopReturns(outcome) ==
  /\ pc' = "idle"
  /\ result' = Result("Stop", outcome, "")
  /\ stopsDone' = IF stopsDone < 2 THEN stopsDone + 1 ELSE stopsDone
  /\ now' = 0

\* Mutant: a Stop that got the pod deleted (or found it gone) forgets the
\* name and the endpoint.
StopAttemptClearing ==
  /\ pc = "stopping"
  /\ attempts < BackoffAttempts
  /\ \E resp \in DeleteResponses(pod_name) :
       /\ attempts' = attempts + 1
       /\ lastDelete' = resp
       /\ lastRequest' = Request("delete", pod_name)
       /\ IF resp.kind = "rejected"
          THEN /\ StopReturns("ValueError")
               /\ UNCHANGED <<delays, warned, pod_name, endpoint>>
          ELSE IF resp.kind = "deleted" \/ IsNotFound(resp.status)
          THEN /\ StopReturns("ok")
               /\ pod_name' = None
               /\ endpoint' = None
               /\ UNCHANGED <<delays, warned>>
          ELSE IF attempts + 1 < BackoffAttempts
          THEN /\ delays' = Append(delays, BackoffDelay(attempts + 1))
               /\ now' = now + BackoffDelay(attempts + 1)
               /\ UNCHANGED <<pc, result, stopsDone, warned, pod_name, endpoint>>
          ELSE /\ warned' = <<Namespace, pod_name>>
               /\ StopReturns("ok")
               /\ UNCHANGED <<delays, pod_name, endpoint>>
  /\ UNCHANGED <<serving_binary, config, executor_pod, deadline,
                 reads, apiErrors, sleeps, lastPoll, creates, callCreates, created,
                 manifest, waitOk, waitOutcome, before>>

\* One iteration of the backoff loop: the deletion request, then return, or
\* log and let the generator sleep before the next attempt; after the last
\* attempt the manual-cleanup warning is logged and Stop returns.
StopAttempt ==
  /\ pc = "stopping"
  /\ attempts < BackoffAttempts
  /\ \E resp \in DeleteResponses(pod_name) :
       /\ attempts' = attempts + 1
       /\ lastDelete' = resp
       /\ lastRequest' = Request("delete", pod_name)
       /\ IF resp.kind = "rejected"
          THEN /\ StopReturns("ValueError")
               /\ UNCHANGED <<delays, warned>>
          ELSE IF resp.kind = "deleted"
          THEN /\ StopReturns("ok")
               /\ UNCHANGED <<delays, warned>>
          ELSE IF IsNotFound(resp.status)
          THEN /\ StopReturns("ok")
               /\ UNCHANGED <<delays, warned>>
          ELSE IF attempts + 1 < BackoffAttempts
          THEN /\ delays' = Append(delays, BackoffDelay(attempts + 1))
               /\ now' = now + BackoffDelay(attempts + 1)
               /\ UNCHANGED <<pc, result, stopsDone, warned>>
          ELSE /\ warned' = <<Namespace, pod_name>>
               /\ StopReturns("ok")
               /\ UNCHANGED <<delays>>
  /\ UNCHANGED <<serving_binary, config, executor_pod, pod_name, endpoint, deadline,
                 reads, apiErrors, sleeps, lastPoll, creates, callCreates, created,
                 manifest, waitOk, waitOutcome, before>>

Next ==
  \/ GetEndpoint
  \/ Start
  \/ WaitUntilRunning
  \/ WaitDeadline
  \/ WaitPoll
  \/ Stop
  \/ StopAttempt

Spec == Init /\ [][Next]_vars

\* ----------------------------------------------------------------- claims
AllPollingIntervals(ss) ==
  \A i \in 1..Len(ss) : ss[i] = 5

\* C1: when the N-th read of a WaitUntilRunning call is answered with phase
\* Running and a non-empty address, the call has returned successfully with
\* that read as its last one (N reads, no further one), one polling-interval
\* sleep lies between consecutive reads (N-1 sleeps of 5 seconds), and the
\* endpoint is "<address of that answer>:<container port>".
C1_ResolvesOnNthPoll ==
  (lastPoll.kind = "pod" /\ lastPoll.phase = "Running" /\ lastPoll.pod_ip # "")
    => /\ pc = "idle"
       /\ result = Result("WaitUntilRunning", "ok", "")
       /\ lastRequest = Request("read", pod_name)
       /\ reads = Len(sleeps) + 1
       /\ AllPollingIntervals(sleeps)
       /\ endpoint = lastPoll.pod_ip \o ":" \o ToString(serving_binary.container_port)

\* A call that resolved on its third read, after two sleeps.
C1_Witness ==
  /\ result = Result("WaitUntilRunning", "ok", "")
  /\ reads = 3
  /\ Len(sleeps) = 2
  /\ lastPoll.phase = "Running"

\* C2: when a read of a WaitUntilRunning call is answered with phase
\* Succeeded or Failed (the first read or a later one), the call has failed
\* with JobAborted carrying that phase, that read is its last request (no
\* sleep and no read follow it), and the call has not touched the endpoint:
\* it is as it was before the call, unresolved unless an earlier call
\* resolved it.
C2_TerminalPhaseAborts ==
  (lastPoll.kind = "pod" /\ lastPoll.phase \in {"Succeeded", "Failed"})
    => /\ pc = "idle"
       /\ result = Result("WaitUntilRunning", "JobAborted", lastPoll.phase)
       /\ lastRequest = Request("read", pod_name)
       /\ reads = Len(sleeps) + 1
       /\ endpoint = before[2]
       /\ (~waitOk => endpoint = None)

\* A call aborted by phase Succeeded on its second read, never resolved.
C2_Witness ==
  /\ result = Result("WaitUntilRunning", "JobAborted", "Succeeded")
  /\ reads = 2
  /\ endpoint = None

\* C3: a WaitUntilRunning call on a started runner whose deadline is at or
\* before the time of the call ends with DeadlineExceeded as its next step,
\* having sent no request, with the instance name and the endpoint as they
\* were before the call.
C3_PastDeadline ==
  [][(pc = "waiting" /\ reads = 0 /\ deadline <= now)
       => /\ pc' = "idle"
          /\ result' = Result("WaitUntilRunning", "DeadlineExceeded", "")
          /\ reads' = 0
          /\ lastRequest' = NoRequest
          /\ callCreates' = 0 /\ attempts' = 0
          /\ <<pod_name', endpoint'>> = before']_vars

\* A call that timed out without a single read.
C3_Witness ==
  /\ result = Result("WaitUntilRunning", "DeadlineExceeded", "")
  /\ pc = "idle"
  /\ reads = 0
  /\ pod_name # None

\* C4: a read answered with ApiException (any status) is followed by one
\* polling-interval sleep and the call stays in its loop: it polls again
\* while the time is before the deadline, however many errors came before,
\* and otherwise ends with DeadlineExceeded; a WaitUntilRunning call on a
\* started runner ends in success, JobAborted or DeadlineExceeded only.
C4_ReadErrorsAreTransient ==
  /\ (result.op = "WaitUntilRunning" /\ before[1] # None)
       => result.outcome \in {"running", "ok", "JobAborted", "DeadlineExceeded"}
  /\ lastPoll.kind = "ApiException"
       => /\ reads = Len(sleeps)
          /\ AllPollingIntervals(sleeps)
          /\ \/ pc = "waiting" /\ result.outcome = "running"
             \/ pc = "idle" /\ result = Result("WaitUntilRunning", "DeadlineExceeded", "")
          /\ (pc = "waiting" /\ now < deadline) => ENABLED WaitPoll

\* Two reads in a row raised ApiException, two sleeps followed, and the call
\* is about to poll a third time.
C4_Witness ==
  /\ pc = "waiting"
  /\ apiErrors = 2
  /\ reads = 2
  /\ Len(sleeps) = 2
  /\ now < deadline

\* C5: the endpoint is set exactly when some WaitUntilRunning call has
\* returned successfully; GetEndpoint returns it in that case and fails its
\* assertion in every other state (before Start, after Start only, after a
\* wait that ended with JobAborted or DeadlineExceeded), returning nothing.
C5_EndpointOnlyAfterSuccessfulWait ==
  /\ (endpoint # None) <=> waitOk
  /\ result.op = "GetEndpoint"
       => IF waitOk
          THEN result.outcome = "ok" /\ result.value = endpoint /\ result.value # None
          ELSE result = Result("GetEndpoint", "AssertionError", "")

\* GetEndpoint failed after a wait that ended with JobAborted.
C5_Witness ==
  /\ result = Result("GetEndpoint", "AssertionError", "")
  /\ waitOutcome = "JobAborted"
  /\ pod_name # None
\* C6: at most one creation request of a runner ever succeeds: once the
\* instance name is recorded, every later Start (after WaitUntilRunning,
\* after Stop, in any state) fails its assertion, sends no request and
\* leaves the name as it is.
C6_StartAtMostOnce ==
  /\ created <= 1
  /\ (result.op = "Start" /\ before[1] # None)
       => /\ result = Result("Start", "AssertionError", "")
          /\ callCreates = 0
          /\ lastRequest = NoRequest
          /\ pod_name = before[1]

\* A second Start, refused after a successful wait and a Stop.
C6_Witness ==
  /\ result = Result("Start", "AssertionError", "")
  /\ created = 1
  /\ waitOk
  /\ stopsDone >= 1

\* C7: a Start call sends at most one creation request, and exactly one when
\* it gets as far as the request; when that request fails, Start ends with
\* the ApiException of that request, no name is recorded and no second
\* request was sent.
C7_StartSendsOneCreation ==
  result.op = "Start"
    => /\ callCreates <= 1
       /\ (callCreates = 1) <=> (result.outcome \in {"ok", "ApiException"})
       /\ (callCreates = 1 /\ pod_name = None)
            => result = Result("Start", "ApiException", "")
       /\ (result.outcome = "ApiException")
            => (pod_name = None /\ lastRequest = Request("create", None))

\* A Start whose only creation request was rejected.
C7_Witness ==
  /\ result = Result("Start", "ApiException", "")
  /\ callCreates = 1
  /\ creates = 1
  /\ pod_name = None

\* C8: when a deletion request of Stop is answered with status 404, Stop has
\* returned normally right after it: no backoff sleep and no further request
\* follow that answer, no warning is logged, nothing is raised.
C8_NotFoundIsSuccess ==
  (lastDelete.kind = "ApiException" /\ lastDelete.status = 404)
    => /\ pc = "idle"
       /\ result = Result("Stop", "ok", "")
       /\ lastRequest = Request("delete", pod_name)
       /\ Len(delays) = attempts - 1
       /\ warned = <<>>

\* The first deletion request of a Stop was answered 404: one request, no sleep.
C8_Witness ==
  /\ lastDelete = ApiException(404)
  /\ attempts = 1
  /\ delays = <<>>
  /\ result = Result("Stop", "ok", "")

StrictlyIncreasing(ds) ==
  \A i \in 1..Len(ds) : \A j \in 1..Len(ds) : i < j => ds[i] < ds[j]

\* C9: a Stop sends at most 5 deletion requests, with strictly increasing
\* backoff delays between them; when the latest answer is an error other
\* than 404, either Stop is still in its loop with fewer than 5 requests
\* sent, or all 5 were sent (4 sleeps between them), the warning naming the
\* namespace and the instance was logged, and Stop returned normally.
C9_StopExhaustsFiveAttempts ==
  /\ attempts <= 5
  /\ StrictlyIncreasing(delays)
  /\ (warned # <<>>) => (attempts = 5 /\ lastDelete.kind = "ApiException")
  /\ (lastDelete.kind = "ApiException" /\ lastDelete.status # 404)
       => \/ /\ pc = "stopping"
             /\ attempts < 5
             /\ Len(delays) = attempts
             /\ warned = <<>>
          \/ /\ pc = "idle"
             /\ attempts = 5
             /\ Len(delays) = 4
             /\ warned = <<Namespace, pod_name>>
             /\ result = Result("Stop", "ok", "")

\* A Stop on a started runner whose five deletion requests all failed.
C9_Witness ==
  /\ result = Result("Stop", "ok", "")
  /\ attempts = 5
  /\ lastDelete = ApiException(500)
  /\ pod_name # None
  /\ warned = <<Namespace, pod_name>>

\* C10 (as claimed): every Stop, in whatever state it is called, completes
\* without raising.
C10_StopNeverRaises ==
  (result.op = "Stop" /\ pc = "idle") => result.outcome = "ok"

\* C11 (as claimed): every read and every deletion request handed to the API
\* client names, in the runner's namespace, the instance name that a
\* successful Start of this runner recorded; none is sent with an absent
\* name.
C11_OnlyOwnInstance ==
  lastRequest.verb \in {"read", "delete"}
    => /\ lastRequest.name # None
       /\ lastRequest.name = pod_name
       /\ lastRequest.namespace = Namespace
       /\ created = 1

\* C12: once a Start has recorded the instance name, no step of any call
\* (Start, WaitUntilRunning, GetEndpoint, Stop, whatever the API server
\* answers) changes or clears it.
C12_NameIsImmutable ==
  [][pod_name # None => pod_name' = pod_name]_vars

\* A Start was refused on a runner that kept its name through an aborted
\* wait and two Stop calls.
C12_Witness ==
  /\ pod_name # None
  /\ pod_name = before[1]
  /\ result.op = "Start"
  /\ waitOutcome = "JobAborted"
  /\ stopsDone = 2

\* The thread that called WaitUntilRunning keeps running its loop: an
\* iteration that can be taken is taken.
FairSpec == Spec /\ WF_vars(WaitPoll) /\ WF_vars(WaitDeadline)

NotResolving(resp) ==
  /\ ~(resp.kind = "pod" /\ resp.phase = "Running" /\ resp.pod_ip # "")
  /\ ~(resp.kind = "pod" /\ resp.phase \in {"Succeeded", "Failed"})

\* C13: a WaitUntilRunning call on a started runner, each of whose
\* unresolved polls moves the clock on by at least the polling interval,
\* eventually ends; when its last read (if any) saw neither Running with an
\* address nor a terminal phase, it has ended with DeadlineExceeded; and no
\* read is sent once the time has reached the deadline.
C13_WaitTerminates ==
  /\ (pc = "waiting") ~> (pc = "idle")
  /\ [](pc = "waiting" => now >= _DEFAULT_POLLING_INTERVAL_SEC * reads)
  /\ []((pc = "idle" /\ result.op = "WaitUntilRunning" /\ before[1] # None
          /\ NotResolving(lastPoll))
        => result = Result("WaitUntilRunning", "DeadlineExceeded", ""))
  /\ [][reads' = reads + 1 => now < deadline]_vars

\* A call that polled twice without resolution and then timed out.
C13_Witness ==
  /\ result = Result("WaitUntilRunning", "DeadlineExceeded", "")
  /\ pc = "idle"
  /\ reads = 2
  /\ lastPoll.kind = "ApiException"

\* C14: on a runner configured with a negative active deadline, Start fails
\* with a configuration error before any creation request: no request is
\* ever handed to the API client by Start, no manifest is submitted and the
\* instance name stays unassigned.
C14_NegativeDeadlineRejected ==
  config.active_deadline_seconds < 0
    => /\ creates = 0
       /\ created = 0
       /\ manifest = <<>>
       /\ pod_name = None
       /\ result.op = "Start"
            => /\ result.outcome = IF serving_binary.kind = "TensorFlowServing"
                                   THEN "ValueError"
                                   ELSE "NotImplementedError"
               /\ callCreates = 0
               /\ lastRequest = NoRequest

\* A Start was rejected with ValueError for the deadline -1.
C14_Witness ==
  /\ config.active_deadline_seconds = -1
  /\ result = Result("Start", "ValueError", "")
  /\ pc = "idle"

\* C15: the active deadline of every submitted manifest is the configured
\* value when that is positive and 86400 when it is unset (0); it is never
\* negative.
C15_ActiveDeadlineOfManifest ==
  manifest # <<>>
    => LET ads == manifest[1].active_deadline_seconds
       IN /\ config.active_deadline_seconds > 0 => ads = config.active_deadline_seconds
          /\ config.active_deadline_seconds = 0 => ads = 86400
          /\ ads >= 0

\* A manifest was submitted with the default deadline by a runner whose
\* configuration leaves it unset.
C15_Witness ==
  /\ manifest # <<>>
  /\ config.active_deadline_seconds = 0
  /\ manifest[1].active_deadline_seconds = 86400
  /\ result.op = "Start"

\* C16: every creation request carries a manifest (creates > 0 only with
\* one), and every submitted manifest has restart policy 'Never' and exactly
\* one owner reference, whose api version, kind, name and uid are those of
\* the executor pod.
C16_ManifestOwnerAndRestartPolicy ==
  /\ creates > 0 => manifest # <<>>
  /\ manifest # <<>>
       => /\ manifest[1].restart_policy = "Never"
          /\ Len(manifest[1].owner_references) = 1
          /\ manifest[1].owner_references[1].api_version = executor_pod.api_version
          /\ manifest[1].owner_references[1].kind = executor_pod.kind
          /\ manifest[1].owner_references[1].name = executor_pod.name
          /\ manifest[1].owner_references[1].uid = executor_pod.uid

\* A creation request was sent by the runner of the second executor pod.
C16_Witness ==
  /\ creates >= 1
  /\ callCreates = 1
  /\ manifest # <<>>
  /\ executor_pod.name = "executor-2"
  /\ manifest[1].owner_references[1].uid = "uid-2"

\* C18: a poll that observes phase Running without an address does not
\* resolve the wait, exactly like a poll that observes Pending or Unknown:
\* the endpoint is not set, the call does not return successfully, one
\* polling interval is slept after the read and the loop goes on (to the
\* next poll or, at the deadline, to DeadlineExceeded).
C18_Unresolved(resp) ==
  /\ resp.kind = "pod"
  /\ \/ resp.phase = "Running" /\ resp.pod_ip = ""
     \/ resp.phase \in {"Pending", "Unknown"}

C18_RunningWithoutAddressIsUnresolved ==
  C18_Unresolved(lastPoll)
    => /\ endpoint = before[2]
       /\ Len(sleeps) = reads
       /\ sleeps[reads] = 5
       /\ now >= 5 * reads \/ pc = "idle"
       /\ \/ pc = "waiting" /\ result = Result("WaitUntilRunning", "running", "")
          \/ pc = "idle" /\ result = Result("WaitUntilRunning", "DeadlineExceeded", "")

\* The wait goes on after two polls, the second of which saw Running with
\* no address; the endpoint is still unset.
C18_Witness ==
  /\ pc = "waiting"
  /\ reads = 2
  /\ lastPoll = PodResponse("Running", "")
  /\ endpoint = None
  /\ now < deadline

\* C19: a Start that fails (creation request rejected, negative deadline,
\* unsupported serving binary) leaves the runner unstarted, no name and no
\* endpoint; WaitUntilRunning on an unstarted runner fails its assertion
\* without sending a read; and a Start on an unstarted runner passes the
\* assertion, so Start may be called again.
C19_FailedStartLeavesUnstarted ==
  /\ (result.op = "Start"
       /\ result.outcome \in {"ApiException", "ValueError", "NotImplementedError"})
       => /\ pod_name = None
          /\ endpoint = None
          /\ created = 0
  /\ (result.op = "WaitUntilRunning" /\ before[1] = None)
       => /\ result.outcome = "AssertionError"
          /\ pc = "idle"
          /\ reads = 0
          /\ lastRequest = NoRequest
          /\ pod_name = None
          /\ endpoint = None
  /\ (result.op = "Start" /\ before[1] = None)
       => result.outcome # "AssertionError"

\* The second Start of a runner was let through after the first had its
\* creation request rejected, and was rejected by the API server as well.
C19_Witness ==
  /\ result = Result("Start", "ApiException", "")
  /\ creates = 2
  /\ callCreates = 1
  /\ pod_name = None

\* C20: Stop changes nothing of the runner's own state, however the deletion
\* ends: name and endpoint are what they were when Stop was called, Stop
\* sends no creation and no read request; after a Stop, a runner that
\* reached Running still returns its endpoint from GetEndpoint and still
\* refuses Start.
C20_StopLeavesRunnerState ==
  /\ result.op = "Stop"
       => /\ <<pod_name, endpoint>> = before
          /\ callCreates = 0
          /\ reads = 0
          /\ lastRequest.verb \in {"none", "delete"}
          /\ lastRequest.verb = "delete" <=> attempts > 0
  /\ (stopsDone >= 1 /\ waitOk)
       => /\ endpoint # None
          /\ pod_name # None
          /\ result.op = "GetEndpoint" => result = Result("GetEndpoint", "ok", endpoint)
          /\ result.op = "Start" => result = Result("Start", "AssertionError", "")

\* After a successful wait and a Stop that exhausted its five attempts,
\* GetEndpoint returned the endpoint.
C20_Witness ==
  /\ stopsDone >= 1
  /\ waitOk
  /\ result.op = "GetEndpoint"
  /\ result.outcome = "ok"
  /\ result.value = endpoint
  /\ pod_name # None

====
